---------------------------- MODULE Spec2Model ----------------------------
(***************************************************************************)
(* Virtual sensor devices with callback support (embvm/c-interfaces).      *)
(*                                                                         *)
(* The repository declares the device interfaces as structs of function    *)
(* pointers and documents their contracts (pre/postconditions, fundamental *)
(* assumptions, implementation notes).  One facade is modelled at a time:  *)
(* `facade` says which of the four callback-capable interface structs it   *)
(* is.  A facade owns two callback lists ("new sample" and "error"); the   *)
(* asynchronous barometric facade also owns a bounded request queue.       *)
(***************************************************************************)
EXTENDS Integers, Sequences, FiniteSets, TLC

(***************************************************************************)
(* Bounds of the model.                                                    *)
(***************************************************************************)
NumNewSampleCbs == 2   \* distinct new-sample callback functions callers hold
NewSampleCapacity == 2 \* fixed size of the list of new-sample callbacks
NumErrorCbs == 2       \* distinct error callback functions callers hold
ErrorCapacity == 1     \* fixed size of the list of error callbacks
QueueCapacity == 2     \* size of the asynchronous request queue
MaxReading == 1        \* raw readings are 0..MaxReading
MaxRequests == 3       \* readSample calls counted as enqueued
MaxOffset == 1         \* raw readings taken this far on either side of
                       \* the sign bit of a 16-bit half
MaxSlpStep == 1        \* sea level pressures a caller supplies: the
                       \* default plus 0..MaxSlpStep

\* Callback function pointers; the two callback types are distinct C types.
NewSampleCallbacks == 1..NumNewSampleCbs
ErrorCallbacks == 1..NumErrorCbs
Readings == 0..MaxReading
\* What the caller's destination variable can hold: any reading, or a value
\* no reading takes (a sentinel the caller pre-fills it with).
DestValues == 0..(MaxReading + 1)
Sentinel == MaxReading + 1

Facades == {"BarometricSensor_withCb", "BarometricSensor_asyncWithCb",
            "HumiditySensor_withCb", "TemperatureSensor_withCb"}

VARIABLES
    facade,        \* which interface struct the device implements
    newSampleCbs,  \* the list of "new sample" callbacks
    errorCbs,      \* the list of "error" callbacks
    dest,          \* the caller's variable a read may be pointed at
    pending,       \* requests enqueued and not yet completed (async)
    nsLog,         \* <<cb, args>> invocations of new-sample callbacks made
                   \* by the most recent call, in order
    errLog,        \* error callbacks invoked by the most recent call
    aborted,       \* the device crashed in a registration function
    nsSet,         \* history: the set register/unregister calls describe
    errSet,        \* (new-sample and error), kept as mathematical sets
    last,          \* history: the most recent call, its inputs, its result
                   \* and the state it started from
    slp,           \* the sea level pressure altitudes are corrected for
    slpSupplied,   \* history: the values setSeaLevelPressure was given
    inflight,      \* a dispatch in progress, callback by callback
    handedOff,     \* invocations dispatched to run after the call
    admitNs,       \* history: the new-sample list when the most recent
                   \* request was enqueued
    followed,      \* history: one enqueued request followed through the
                   \* queue (its place, and whether it has completed)
    counts         \* history: requests enqueued, requests completed and
                   \* notifications made, counted by CountSpec

\* The variables only the basic interfaces, the stepwise dispatch and the
\* request history use.
ext == <<slp, slpSupplied, inflight, handedOff>>

\* The history of the requests, recorded by AsyncSpec only.
hist == <<admitNs, followed, counts>>

vars == <<facade, newSampleCbs, errorCbs, dest, pending, nsLog, errLog,
          aborted, nsSet, errSet, last, slp, slpSupplied, inflight,
          handedOff, admitNs, followed, counts>>

(***************************************************************************)
(* Callback lists.                                                         *)
(***************************************************************************)
\* The callbacks that are on a list.
Members(list) == {list[i] : i \in 1..Len(list)}

\* How many times cb occurs in a sequence of callbacks.
Count(cb, seq) == Cardinality({i \in 1..Len(seq) : seq[i] = cb})

isRegistered(list, cb) == cb \in Members(list)

\* "cannot be added to a list due to exceeding fixed size constraints"
listFull(list, capacity) == Len(list) >= capacity

\* "This function will add the callback input to a list of functions"
addToList(list, cb) == Append(list, cb)

\* Faulty variant of registerCb: every registration appends.
registerCb_noDedup(list, cb) == Append(list, cb)

\* register: a callback that is already on the list is not added again.
registerCb(list, cb) ==
    IF isRegistered(list, cb) THEN list ELSE addToList(list, cb)

\* Faulty variants of unregisterCb.
\* The search starts at the second entry.
unregisterCb_skipFirst(list, cb) ==
    IF Len(list) = 0 THEN list
    ELSE <<list[1]>> \o SelectSeq(Tail(list), LAMBDA x : x # cb)

\* Only the tail of the list is looked at.
unregisterCb_tailOnly(list, cb) ==
    IF Len(list) > 0 /\ list[Len(list)] = cb
    THEN SubSeq(list, 1, Len(list) - 1)
    ELSE list

\* A callback that is not found makes the last entry go.
unregisterCb_absentDropsLast(list, cb) ==
    IF cb \in {list[i] : i \in 1..Len(list)}
    THEN SelectSeq(list, LAMBDA x : x # cb)
    ELSE SubSeq(list, 1, Len(list) - 1)

\* "remove a callback function from the registered list ... If the function
\* has not been previously registered, the parameter will be ignored and the
\* list will be unchanged.  @post callback function pointer is not present"
unregisterCb(list, cb) == SelectSeq(list, LAMBDA x : x # cb)

\* Faulty variant of dispatchNewSample: the loop stops one entry early.
dispatchNewSample_skipLast(list, args) ==
    [i \in 1..(Len(list) - 1) |-> <<list[i], args>>]

\* "registered New Sample callbacks will be invoked or dispatched with the
\* new measurement": one invocation per list entry, each with the sample.
dispatchNewSample(list, args) == [i \in 1..Len(list) |-> <<list[i], args>>]

\* "registered Error callbacks will be invoked or dispatched": one
\* invocation per list entry, no argument.
dispatchError(list) == [i \in 1..Len(list) |-> list[i]]

\* The callbacks of the invocations in a new-sample log, in order.
Invoked(log) == [i \in 1..Len(log) |-> log[i][1]]

(***************************************************************************)
(* Initial state: the device has been initialized by the system, nothing   *)
(* is registered, nothing is enqueued.                                     *)
(***************************************************************************)
NoCall ==
    [op |-> "init", follows |-> "", cb |-> 0, destNull |-> FALSE,
     valid |-> FALSE, value |-> 0, args |-> <<>>, ret |-> FALSE,
     returned |-> TRUE, destBefore |-> 0, nsBefore |-> <<>>,
     errBefore |-> <<>>, pendingBefore |-> 0]

\* "If no value for SLP has been supplied, calculations will assume
\* 1013.25 hPa", as an unsigned fixed-point number in format UQ22.10
\* (1013.25 * 2^10).
DefaultSeaLevelPressure == 1037568

\* Nothing has been counted.
NoCounts == [admitted |-> 0, completed |-> 0, newSample |-> 0, error |-> 0]

\* No request is followed.
NotFollowed == [pos |-> 0, done |-> FALSE]

\* No dispatch is in progress.
NoDispatch ==
    [active |-> FALSE, policy |-> "", start |-> <<>>, snapshot |-> <<>>,
     idx |-> 0, invoked |-> <<>>]

Init ==
    /\ facade \in Facades
    /\ newSampleCbs = <<>>
    /\ errorCbs = <<>>
    /\ dest \in (IF facade = "BarometricSensor_asyncWithCb"
                 THEN {Sentinel} ELSE DestValues)
    /\ pending = 0
    /\ nsLog = <<>>
    /\ errLog = <<>>
    /\ aborted = FALSE
    /\ nsSet = {}
    /\ errSet = {}
    /\ last = [NoCall EXCEPT !.destBefore = dest]
    /\ slp = DefaultSeaLevelPressure
    /\ slpSupplied = <<>>
    /\ inflight = NoDispatch
    /\ handedOff = <<>>
    /\ admitNs = <<>>
    /\ followed = NotFollowed
    /\ counts = NoCounts

\* The record of a call that starts in the current state.
Call(op) ==
    [NoCall EXCEPT !.op = op, !.destBefore = dest,
                   !.nsBefore = newSampleCbs, !.errBefore = errorCbs,
                   !.pendingBefore = pending]

IsSync == facade # "BarometricSensor_asyncWithCb"


(***************************************************************************)
(* Notification: the dispatch step shared by the synchronous reads and by  *)
(* the completion of an asynchronous request.                              *)
(***************************************************************************)
\* Faulty variant of notify: the valid branch falls through to the error
\* callbacks.
notify_fallThrough(valid, args, ns, err) ==
    [nsLog |-> IF valid THEN dispatchNewSample(ns, args) ELSE <<>>,
     errLog |-> dispatchError(err)]

\* Faulty variant of notify: the validity test is inverted.
notify_inverted(valid, args, ns, err) ==
    IF ~valid
    THEN [nsLog |-> dispatchNewSample(ns, args), errLog |-> <<>>]
    ELSE [nsLog |-> <<>>, errLog |-> dispatchError(err)]

\* "If the measurement is valid, registered New Sample callbacks will be
\* invoked or dispatched with the new measurement.  If the measurement is
\* not valid, registered Error callbacks will be invoked or dispatched."
notify(valid, args, ns, err) ==
    IF valid
    THEN [nsLog |-> dispatchNewSample(ns, args), errLog |-> <<>>]
    ELSE [nsLog |-> <<>>, errLog |-> dispatchError(err)]

\* Faulty variants of sampleWithCb.
\* A caller that takes the value itself is the only one to get it.
sampleWithCb_callerOnly(ptrNull, valid, value, args, d, ns, err) ==
    [dest |-> IF valid /\ ~ptrNull THEN value ELSE d,
     ret |-> valid,
     nsLog |-> IF ptrNull THEN notify(valid, args, ns, err).nsLog ELSE <<>>,
     errLog |-> notify(valid, args, ns, err).errLog]

\* The reading is stored before its validity is looked at.
sampleWithCb_storeFirst(ptrNull, valid, value, args, d, ns, err) ==
    [dest |-> IF ~ptrNull THEN value ELSE d,
     ret |-> valid,
     nsLog |-> notify(valid, args, ns, err).nsLog,
     errLog |-> notify(valid, args, ns, err).errLog]

\* A NULL pointer is taken for an error.
sampleWithCb_nullIsError(ptrNull, valid, value, args, d, ns, err) ==
    [dest |-> IF valid /\ ~ptrNull THEN value ELSE d,
     ret |-> valid /\ ~ptrNull,
     nsLog |-> notify(valid /\ ~ptrNull, args, ns, err).nsLog,
     errLog |-> notify(valid /\ ~ptrNull, args, ns, err).errLog]

\* The read functions of the *_withCb structs.  ptrNull: the caller passed
\* NULL; d: what the caller's variable holds; value: the reading of the
\* quantity asked for; args: the argument list the callbacks are given.
\* "If the measurement is valid and pressure is not NULL, the data pointed
\* to by the pressure parameter will be updated with the latest reading.  If
\* the measurement is invalid, the data pointed to ... will remain
\* unchanged.  @returns True if the sample is valid, false if invalid"
sampleWithCb(ptrNull, valid, value, args, d, ns, err) ==
    [dest |-> IF valid /\ ~ptrNull THEN value ELSE d,
     ret |-> valid,
     nsLog |-> notify(valid, args, ns, err).nsLog,
     errLog |-> notify(valid, args, ns, err).errLog]

\* The most recent call was one of the synchronous read functions.
IsRead ==
    last.op \in {"readPressure", "readAltitude", "readHumidity",
                 "readTemperature"}

\* The most recent call or step notified the callbacks of a sample.
IsSampleEvent == IsRead \/ last.op = "completeRequest"

\* The call before this one was the same read function, with a NULL
\* pointer, and the device gave it the reading it gives now.
SameReading(op, valid, args) ==
    /\ last.op = op
    /\ last.destNull
    /\ last.valid = valid
    /\ last.args = args

read_withCb(op, ptrNull, valid, value, args) ==
    LET r == sampleWithCb(ptrNull, valid, value, args, dest, newSampleCbs,
                          errorCbs)
    IN  /\ ~aborted
        /\ dest' = r.dest
        /\ nsLog' = r.nsLog
        /\ errLog' = r.errLog
        /\ last' = [Call(op) EXCEPT !.destNull = ptrNull, !.valid = valid,
                                    !.value = value, !.args = args,
                                    !.ret = r.ret,
                                    !.follows =
                                        IF SameReading(op, valid, args)
                                        THEN "null-read" ELSE ""]
        /\ UNCHANGED <<ext, hist>>
        /\ UNCHANGED <<facade, newSampleCbs, errorCbs, pending, aborted,
                       nsSet, errSet>>

\* BarometricSensor_withCb.readPressure: the callbacks take the pressure
\* and the altitude; the caller gets the pressure.
readPressure ==
    /\ facade = "BarometricSensor_withCb"
    /\ \E ptrNull \in BOOLEAN, valid \in BOOLEAN, p \in Readings, a \in Readings :
          read_withCb("readPressure", ptrNull, valid, p, <<p, a>>)

\* BarometricSensor_withCb.readAltitude: the caller gets the altitude.
readAltitude ==
    /\ facade = "BarometricSensor_withCb"
    /\ \E ptrNull \in BOOLEAN, valid \in BOOLEAN, p \in Readings, a \in Readings :
          read_withCb("readAltitude", ptrNull, valid, a, <<p, a>>)

\* HumiditySensor_withCb.readHumidity
readHumidity ==
    /\ facade = "HumiditySensor_withCb"
    /\ \E ptrNull \in BOOLEAN, valid \in BOOLEAN, h \in Readings :
          read_withCb("readHumidity", ptrNull, valid, h, <<h>>)

\* TemperatureSensor_withCb.readTemperature
readTemperature ==
    /\ facade = "TemperatureSensor_withCb"
    /\ \E ptrNull \in BOOLEAN, valid \in BOOLEAN, t \in Readings :
          read_withCb("readTemperature", ptrNull, valid, t, <<t>>)

\* The caller writes its own variable (for instance pre-fills it).
callerStore ==
    /\ ~aborted
    /\ IsSync
    /\ \E v \in DestValues :
          /\ v # dest
          /\ dest' = v
    /\ nsLog' = <<>>
    /\ errLog' = <<>>
    /\ last' = Call("callerStore")
    /\ UNCHANGED <<ext, hist>>
    /\ UNCHANGED <<facade, newSampleCbs, errorCbs, pending, aborted, nsSet,
                   errSet>>

(***************************************************************************)
(* Registration functions (the same in the four structs).                  *)
(***************************************************************************)
\* Faulty variant of registerOutcome: a callback that finds the list full is
\* left out and the function returns.
registerOutcome_silentDrop(list, cb, capacity) ==
    IF ~isRegistered(list, cb) /\ listFull(list, capacity)
    THEN [list |-> list, crash |-> FALSE]
    ELSE [list |-> registerCb(list, cb), crash |-> FALSE]

\* The registration functions return nothing; a callback that cannot be
\* added because the list is full makes the device crash.
registerOutcome(list, cb, capacity) ==
    IF ~isRegistered(list, cb) /\ listFull(list, capacity)
    THEN [list |-> list, crash |-> TRUE]
    ELSE [list |-> registerCb(list, cb), crash |-> FALSE]

\* Faulty variant of registerNewSampleCb: the callbacks of both kinds are
\* kept in one list.
registerNewSampleCb_oneList ==
    /\ ~aborted
    /\ \E cb \in NewSampleCallbacks :
          LET r == registerOutcome(newSampleCbs, cb, NewSampleCapacity)
          IN  /\ newSampleCbs' = r.list
              /\ errorCbs' = r.list
              /\ aborted' = r.crash
              /\ nsSet' = nsSet \cup {cb}
              /\ last' = [Call("registerNewSampleCb") EXCEPT
                              !.cb = cb, !.returned = ~r.crash]
    /\ nsLog' = <<>>
    /\ errLog' = <<>>
    /\ UNCHANGED <<ext, hist>>
    /\ UNCHANGED <<facade, dest, pending, errSet>>

registerNewSampleCb ==
    /\ ~aborted
    /\ \E cb \in NewSampleCallbacks :
          LET r == registerOutcome(newSampleCbs, cb, NewSampleCapacity)
          IN  /\ newSampleCbs' = r.list
              /\ aborted' = r.crash
              /\ nsSet' = nsSet \cup {cb}
              /\ last' = [Call("registerNewSampleCb") EXCEPT
                              !.cb = cb, !.returned = ~r.crash]
    /\ nsLog' = <<>>
    /\ errLog' = <<>>
    /\ UNCHANGED <<ext, hist>>
    /\ UNCHANGED <<facade, errorCbs, dest, pending, errSet>>

unregisterNewSampleCb ==
    /\ ~aborted
    /\ \E cb \in NewSampleCallbacks :
          /\ newSampleCbs' = unregisterCb(newSampleCbs, cb)
          /\ nsSet' = nsSet \ {cb}
          /\ last' = [Call("unregisterNewSampleCb") EXCEPT !.cb = cb]
    /\ nsLog' = <<>>
    /\ errLog' = <<>>
    /\ UNCHANGED <<ext, hist>>
    /\ UNCHANGED <<facade, errorCbs, dest, pending, aborted, errSet>>

registerErrorCb ==
    /\ ~aborted
    /\ \E cb \in ErrorCallbacks :
          LET r == registerOutcome(errorCbs, cb, ErrorCapacity)
          IN  /\ errorCbs' = r.list
              /\ aborted' = r.crash
              /\ errSet' = errSet \cup {cb}
              /\ last' = [Call("registerErrorCb") EXCEPT
                              !.cb = cb, !.returned = ~r.crash]
    /\ nsLog' = <<>>
    /\ errLog' = <<>>
    /\ UNCHANGED <<ext, hist>>
    /\ UNCHANGED <<facade, newSampleCbs, dest, pending, nsSet>>

unregisterErrorCb ==
    /\ ~aborted
    /\ \E cb \in ErrorCallbacks :
          /\ errorCbs' = unregisterCb(errorCbs, cb)
          /\ errSet' = errSet \ {cb}
          /\ last' = [Call("unregisterErrorCb") EXCEPT !.cb = cb]
    /\ nsLog' = <<>>
    /\ errLog' = <<>>
    /\ UNCHANGED <<ext, hist>>
    /\ UNCHANGED <<facade, newSampleCbs, dest, pending, aborted, nsSet>>

(***************************************************************************)
(* Asynchronous mode (BarometricSensor_asyncWithCb).                       *)
(***************************************************************************)
\* Faulty variant of enqueueRequest: the capacity test is off by one.
enqueueRequest_offByOne(n) ==
    IF n < QueueCapacity - 1
    THEN [ret |-> TRUE, pending |-> n + 1]
    ELSE [ret |-> FALSE, pending |-> n]

\* Faulty variant of enqueueRequest: a request that finds the queue full
\* pushes the oldest one out.
enqueueRequest_rejectDropsOldest(n) ==
    IF n < QueueCapacity
    THEN [ret |-> TRUE, pending |-> n + 1]
    ELSE [ret |-> FALSE, pending |-> n - 1]

\* "@returns True if the request was successful, False if the request could
\* not be successfully enqueued (e.g., the queue is full)."  n: requests in
\* the queue.
enqueueRequest(n) ==
    IF n < QueueCapacity
    THEN [ret |-> TRUE, pending |-> n + 1]
    ELSE [ret |-> FALSE, pending |-> n]

\* Faulty variant of readSampleResult: the function queries the sensor
\* itself and hands the sample to the callbacks before it returns.
readSampleResult_blocking(n, ns, err) ==
    [ret |-> TRUE, pending |-> n,
     nsLog |-> dispatchNewSample(ns, <<0, 0>>), errLog |-> <<>>]

\* "readPressure() should be a non-blocking call.  It should not directly
\* query the sensor and wait for a response, but should instead send a
\* request to a queue of some type."  The call invokes no callback.
readSampleResult(n, ns, err) ==
    [ret |-> enqueueRequest(n).ret, pending |-> enqueueRequest(n).pending,
     nsLog |-> <<>>, errLog |-> <<>>]

readSampleCall ==
    /\ ~aborted
    /\ facade = "BarometricSensor_asyncWithCb"
    /\ pending' = readSampleResult(pending, newSampleCbs, errorCbs).pending
    /\ nsLog' = readSampleResult(pending, newSampleCbs, errorCbs).nsLog
    /\ errLog' = readSampleResult(pending, newSampleCbs, errorCbs).errLog
    /\ last' = [Call("readSample") EXCEPT
                    !.ret = readSampleResult(pending, newSampleCbs,
                                             errorCbs).ret,
                    !.follows = IF last.op = "completeRequest"
                                THEN (IF last.follows = "rejected"
                                      THEN "rejected-completed"
                                      ELSE "completed")
                                ELSE ""]
    /\ UNCHANGED ext
    /\ UNCHANGED <<facade, newSampleCbs, errorCbs, dest, aborted, nsSet,
                   errSet>>

readSample == readSampleCall /\ UNCHANGED hist

\* Faulty variant of notifiedAtCompletion: the callbacks are those that
\* were registered when the request was enqueued.
notifiedAtCompletion_atAdmission(live, admitted) == admitted

\* "The device will notify interested parties when a new valid sample is
\* available": the new-sample callbacks notified by a completion are those
\* in the list then.  live: the list now; admitted: the list when the
\* request was enqueued.
notifiedAtCompletion(live, admitted) == live

\* Faulty variant of dequeueRequest: a completed request stays in the
\* queue.
dequeueRequest_keeps(n) == n

\* Faulty variant of dequeueRequest: a completion empties the queue.
dequeueRequest_flush(n) == 0

\* A completed request leaves the queue.  n: requests in the queue.
dequeueRequest(n) == n - 1

\* The device completes one enqueued request: "The device will notify
\* interested parties when a new valid sample is available after a
\* successful readPressure() request has completed"; on an error it issues
\* the error callback.
completion ==
    /\ ~aborted
    /\ facade = "BarometricSensor_asyncWithCb"
    /\ pending > 0
    /\ pending' = dequeueRequest(pending)
    /\ \E valid \in BOOLEAN, p \in Readings, a \in Readings :
          /\ nsLog' = notify(valid, <<p, a>>,
                             notifiedAtCompletion(newSampleCbs, admitNs),
                             errorCbs).nsLog
          /\ errLog' = notify(valid, <<p, a>>, newSampleCbs, errorCbs).errLog
          /\ last' = [Call("completeRequest") EXCEPT
                          !.valid = valid, !.value = p, !.args = <<p, a>>,
                          !.follows = IF last.op = "readSample" /\ ~last.ret
                                      THEN "rejected" ELSE ""]
    /\ UNCHANGED ext
    /\ UNCHANGED <<facade, newSampleCbs, errorCbs, dest, aborted, nsSet,
                   errSet>>

completeRequest == completion /\ UNCHANGED hist

Next ==
    \/ readPressure
    \/ readAltitude
    \/ readHumidity
    \/ readTemperature
    \/ callerStore
    \/ registerNewSampleCb
    \/ unregisterNewSampleCb
    \/ registerErrorCb
    \/ unregisterErrorCb
    \/ readSample
    \/ completeRequest

Spec == Init /\ [][Next]_vars

(***************************************************************************)
(* The asynchronous device on its own, with the history of its requests    *)
(* recorded.                                                               *)
(***************************************************************************)
AsyncInit ==
    /\ Init
    /\ facade = "BarometricSensor_asyncWithCb"

\* readSample, remembering the list of new-sample callbacks at the time the
\* request was enqueued.
requestSample ==
    /\ readSampleCall
    /\ admitNs' = IF readSampleResult(pending, newSampleCbs, errorCbs).ret
                  THEN newSampleCbs ELSE admitNs
    /\ UNCHANGED <<followed, counts>>

AsyncNext ==
    \/ requestSample
    \/ completeRequest
    \/ registerNewSampleCb
    \/ unregisterNewSampleCb
    \/ registerErrorCb
    \/ unregisterErrorCb

AsyncSpec == AsyncInit /\ [][AsyncNext]_vars

(***************************************************************************)
(* The asynchronous device with a producer that keeps completing the       *)
(* enqueued requests, and one request at a time followed from the moment   *)
(* it is enqueued (any request may be the one).                            *)
(***************************************************************************)
\* readSample; an enqueued request may become the followed one when no
\* request is being followed.
followRequest ==
    /\ readSampleCall
    /\ followed' \in
          IF readSampleResult(pending, newSampleCbs, errorCbs).ret
             /\ followed.pos = 0
          THEN {followed, [pos |-> pending + 1, done |-> FALSE]}
          ELSE {followed}
    /\ UNCHANGED <<admitNs, counts>>

\* The completion of the oldest request: the followed request moves up one
\* place, and has completed when it was the oldest.
produceSample ==
    /\ completion
    /\ followed' = IF followed.pos > 0
                   THEN [pos |-> followed.pos - 1,
                         done |-> followed.pos = 1]
                   ELSE followed
    /\ UNCHANGED <<admitNs, counts>>

ProducerNext ==
    \/ followRequest
    \/ produceSample
    \/ registerNewSampleCb
    \/ unregisterNewSampleCb
    \/ registerErrorCb
    \/ unregisterErrorCb

\* "The device will notify interested parties ... after a successful
\* readPressure() request has completed": the producer does not stop while
\* requests are in the queue.
ProducerSpec == AsyncInit /\ [][ProducerNext]_vars /\ WF_vars(produceSample)

(***************************************************************************)
(* The asynchronous device with its requests and notifications counted.    *)
(***************************************************************************)
\* readSample, counted when the request is enqueued.  The count is capped
\* at MaxRequests.
countedRequest ==
    /\ counts.admitted < MaxRequests
    /\ readSampleCall
    /\ counts' = IF readSampleResult(pending, newSampleCbs, errorCbs).ret
                 THEN [counts EXCEPT !.admitted = @ + 1]
                 ELSE counts
    /\ UNCHANGED <<admitNs, followed>>

\* The completion of a request, counted with the notification it makes: of
\* the new-sample callbacks or of the error callbacks.
countedCompletion ==
    /\ completion
    /\ counts' = [counts EXCEPT
                     !.completed = @ + 1,
                     !.newSample = @ + (IF last'.valid THEN 1 ELSE 0),
                     !.error = @ + (IF last'.valid THEN 0 ELSE 1)]
    /\ UNCHANGED <<admitNs, followed>>

CountNext ==
    \/ countedRequest
    \/ countedCompletion
    \/ registerNewSampleCb
    \/ unregisterNewSampleCb
    \/ registerErrorCb
    \/ unregisterErrorCb

CountSpec == AsyncInit /\ [][CountNext]_vars

(***************************************************************************)
(* The basic interfaces: BarometricSensor, BarometricAltimeter,            *)
(* BarometricPressureSensor, HumiditySensor, TemperatureSensor.  They have *)
(* no callbacks; a read stores the reading in the caller's variable.       *)
(***************************************************************************)
BasicFacades == {"BarometricSensor", "BarometricAltimeter",
                 "BarometricPressureSensor", "HumiditySensor",
                 "TemperatureSensor"}

\* The sea level pressures a caller supplies (UQ22.10).
SeaLevelPressures ==
    {DefaultSeaLevelPressure + i : i \in 0..MaxSlpStep}

\* "Get the current altitude, corrected for Sea Level Pressure".  The
\* headers leave the correction formula to the implementation; the model
\* keeps what they state, that the altitude is computed from the measured
\* pressure p and the sea level pressure s, by a stand-in that rises with s
\* and falls with p.
Altitude(p, s) == s - p

\* Faulty variant of setSlp: the supplied value is dropped.
setSlp_dropped(current, v) == current

\* "Set the sea level pressure": the supplied value replaces the current
\* one.
setSlp(current, v) == v

\* Faulty variant of getter: the reading is stored before its validity is
\* looked at.
getter_storeFirst(valid, value, d) == [dest |-> value, ret |-> valid]

\* "@post If the measurement is valid, the data pointed to by the ...
\* parameter will be updated with the latest reading.  @post If the
\* measurement is invalid, the data pointed to by the ... parameter will
\* remain unchanged.  @returns True if the sample is valid, false if
\* invalid".  d: what the caller's variable holds.
getter(valid, value, d) ==
    [dest |-> IF valid THEN value ELSE d, ret |-> valid]

BasicInit ==
    /\ facade \in BasicFacades
    /\ newSampleCbs = <<>>
    /\ errorCbs = <<>>
    /\ dest \in DestValues
    /\ pending = 0
    /\ nsLog = <<>>
    /\ errLog = <<>>
    /\ aborted = FALSE
    /\ nsSet = {}
    /\ errSet = {}
    /\ last = [NoCall EXCEPT !.destBefore = dest]
    /\ slp = DefaultSeaLevelPressure
    /\ slpSupplied = <<>>
    /\ inflight = NoDispatch
    /\ handedOff = <<>>
    /\ admitNs = <<>>
    /\ followed = NotFollowed
    /\ counts = NoCounts

\* A read of a basic interface.  reading: the raw measurement; value: what
\* the read hands out for it.
basicRead(op, valid, reading, value) ==
    /\ dest' = getter(valid, value, dest).dest
    /\ last' = [Call(op) EXCEPT !.valid = valid, !.value = value,
                                !.args = <<reading>>,
                                !.ret = getter(valid, value, dest).ret]
    /\ UNCHANGED <<slp, slpSupplied, inflight, handedOff, hist>>
    /\ UNCHANGED <<facade, newSampleCbs, errorCbs, pending, nsLog, errLog,
                   aborted, nsSet, errSet>>

\* A call of setSeaLevelPressure with the value v.
basicSetSeaLevelPressure(op, v) ==
    /\ slp' = setSlp(slp, v)
    /\ slpSupplied' = <<v>>
    /\ last' = [Call(op) EXCEPT !.value = v]
    /\ UNCHANGED <<inflight, handedOff, hist>>
    /\ UNCHANGED <<facade, newSampleCbs, errorCbs, dest, pending, nsLog,
                   errLog, aborted, nsSet, errSet>>

BarometricSensor_readPressure ==
    /\ facade = "BarometricSensor"
    /\ \E valid \in BOOLEAN, p \in Readings :
          basicRead("BarometricSensor_readPressure", valid, p, p)

BarometricSensor_readAltitude ==
    /\ facade = "BarometricSensor"
    /\ \E valid \in BOOLEAN, p \in Readings :
          basicRead("BarometricSensor_readAltitude", valid, p,
                    Altitude(p, slp))

BarometricSensor_setSeaLevelPressure ==
    /\ facade = "BarometricSensor"
    /\ \E v \in SeaLevelPressures :
          basicSetSeaLevelPressure("BarometricSensor_setSeaLevelPressure",
                                   v)

BarometricAltimeter_getAltitude ==
    /\ facade = "BarometricAltimeter"
    /\ \E valid \in BOOLEAN, p \in Readings :
          basicRead("BarometricAltimeter_getAltitude", valid, p,
                    Altitude(p, slp))

BarometricAltimeter_setSeaLevelPressure ==
    /\ facade = "BarometricAltimeter"
    /\ \E v \in SeaLevelPressures :
          basicSetSeaLevelPressure(
              "BarometricAltimeter_setSeaLevelPressure", v)

BarometricPressureSensor_readPressure ==
    /\ facade = "BarometricPressureSensor"
    /\ \E valid \in BOOLEAN, p \in Readings :
          basicRead("BarometricPressureSensor_readPressure", valid, p, p)

HumiditySensor_getHumidity ==
    /\ facade = "HumiditySensor"
    /\ \E valid \in BOOLEAN, h \in Readings :
          basicRead("HumiditySensor_getHumidity", valid, h, h)

TemperatureSensor_readTemperature ==
    /\ facade = "TemperatureSensor"
    /\ \E valid \in BOOLEAN, t \in Readings :
          basicRead("TemperatureSensor_readTemperature", valid, t, t)

BasicNext ==
    \/ BarometricSensor_readPressure
    \/ BarometricSensor_readAltitude
    \/ BarometricSensor_setSeaLevelPressure
    \/ BarometricAltimeter_getAltitude
    \/ BarometricAltimeter_setSeaLevelPressure
    \/ BarometricPressureSensor_readPressure
    \/ HumiditySensor_getHumidity
    \/ TemperatureSensor_readTemperature
    \/ callerStore

BasicSpec == BasicInit /\ [][BasicNext]_vars

(***************************************************************************)
(* A dispatch taken callback by callback, with register and unregister     *)
(* calls of another thread of control in between, under the two policies   *)
(* an implementation may document: "snapshot" (the dispatch walks a copy   *)
(* of the list taken when it begins) and "lock" (the list is locked for    *)
(* the duration of the dispatch; a register or unregister call waits).     *)
(***************************************************************************)
Policies == {"snapshot", "lock"}

\* The list a dispatch in progress walks.
dispatchSource(policy, snapshot, live) ==
    IF policy = "snapshot" THEN snapshot ELSE live

\* Faulty variant of mayMutate: the lock is not taken.
mayMutate_noLock(policy, active) == TRUE

\* Whether a register or unregister call may go ahead now.
mayMutate(policy, active) == policy = "snapshot" \/ ~active

ConcInit ==
    /\ facade = "BarometricSensor_withCb"
    /\ newSampleCbs = <<>>
    /\ errorCbs = <<>>
    /\ dest = Sentinel
    /\ pending = 0
    /\ nsLog = <<>>
    /\ errLog = <<>>
    /\ aborted = FALSE
    /\ nsSet = {}
    /\ errSet = {}
    /\ last = [NoCall EXCEPT !.destBefore = dest]
    /\ slp = DefaultSeaLevelPressure
    /\ slpSupplied = <<>>
    /\ \E policy \in Policies :
          inflight = [NoDispatch EXCEPT !.policy = policy]
    /\ handedOff = <<>>
    /\ admitNs = <<>>
    /\ followed = NotFollowed
    /\ counts = NoCounts

\* What the stepwise dispatch and the calls around it leave alone.
concFrame == <<facade, errorCbs, dest, pending, nsLog, errLog, nsSet, errSet,
               slp, slpSupplied, handedOff, hist>>

\* A new valid sample is available: the dispatch to the new-sample
\* callbacks begins.
beginDispatch ==
    /\ ~aborted
    /\ ~inflight.active
    /\ inflight' = [active |-> TRUE, policy |-> inflight.policy,
                    start |-> newSampleCbs,
                    snapshot |-> IF inflight.policy = "snapshot"
                                 THEN newSampleCbs ELSE <<>>,
                    idx |-> 1, invoked |-> <<>>]
    /\ last' = Call("beginDispatch")
    /\ UNCHANGED <<newSampleCbs, aborted, concFrame>>

\* The dispatch invokes the next callback of the list it walks.
dispatchStep ==
    /\ ~aborted
    /\ inflight.active
    /\ LET source == dispatchSource(inflight.policy, inflight.snapshot,
                                    newSampleCbs)
       IN  /\ inflight.idx <= Len(source)
           /\ inflight' = [inflight EXCEPT
                              !.invoked = Append(@, source[inflight.idx]),
                              !.idx = @ + 1]
    /\ last' = Call("dispatchStep")
    /\ UNCHANGED <<newSampleCbs, aborted, concFrame>>

\* The dispatch has reached the end of the list it walks.
endDispatch ==
    /\ ~aborted
    /\ inflight.active
    /\ inflight.idx > Len(dispatchSource(inflight.policy, inflight.snapshot,
                                         newSampleCbs))
    /\ inflight' = [inflight EXCEPT !.active = FALSE]
    /\ last' = Call("endDispatch")
    /\ UNCHANGED <<newSampleCbs, aborted, concFrame>>

\* registerNewSampleCb called from another thread of control.
concurrentRegister ==
    /\ ~aborted
    /\ mayMutate(inflight.policy, inflight.active)
    /\ \E cb \in NewSampleCallbacks :
          LET r == registerOutcome(newSampleCbs, cb, NewSampleCapacity)
          IN  /\ newSampleCbs' = r.list
              /\ aborted' = r.crash
              /\ last' = [Call("registerNewSampleCb") EXCEPT
                              !.cb = cb, !.returned = ~r.crash]
    /\ UNCHANGED <<inflight, concFrame>>

\* unregisterNewSampleCb called from another thread of control.
concurrentUnregister ==
    /\ ~aborted
    /\ mayMutate(inflight.policy, inflight.active)
    /\ \E cb \in NewSampleCallbacks :
          /\ newSampleCbs' = unregisterCb(newSampleCbs, cb)
          /\ last' = [Call("unregisterNewSampleCb") EXCEPT !.cb = cb]
    /\ UNCHANGED <<inflight, aborted, concFrame>>

ConcNext ==
    \/ beginDispatch
    \/ dispatchStep
    \/ endDispatch
    \/ concurrentRegister
    \/ concurrentUnregister

ConcSpec == ConcInit /\ [][ConcNext]_vars

(***************************************************************************)
(* Where the callbacks run.  "If the measurement is valid, registered New  *)
(* Sample callbacks will be invoked or dispatched with the new             *)
(* measurement": a read either invokes the callbacks itself or hands the   *)
(* invocations to a dispatcher that runs them afterwards.                  *)
(***************************************************************************)
Delivery == {"invoke", "dispatch"}

\* The invocations nsLog and errLog as entries <<kind, callback, arguments>>
\* for the dispatcher.
asDispatched(nsLog_, errLog_) ==
    [i \in 1..Len(nsLog_) |-> <<"new-sample", nsLog_[i][1], nsLog_[i][2]>>]
    \o [i \in 1..Len(errLog_) |-> <<"error", errLog_[i], <<>>>>]

\* Faulty variant of deliver: a dispatching read leaves out the last
\* invocation.
deliver_dropsLast(how, nsLog_, errLog_) ==
    IF how = "invoke"
    THEN [nsLog |-> nsLog_, errLog |-> errLog_, handedOff |-> <<>>]
    ELSE [nsLog |-> <<>>, errLog |-> <<>>,
          handedOff |->
              SubSeq(asDispatched(nsLog_, errLog_), 1,
                     Len(asDispatched(nsLog_, errLog_)) - 1)]

\* "invoked or dispatched": what the read invokes itself and what it hands
\* to the dispatcher.
deliver(how, nsLog_, errLog_) ==
    IF how = "invoke"
    THEN [nsLog |-> nsLog_, errLog |-> errLog_, handedOff |-> <<>>]
    ELSE [nsLog |-> <<>>, errLog |-> <<>>,
          handedOff |-> asDispatched(nsLog_, errLog_)]

ContextInit ==
    /\ Init
    /\ facade \in {"BarometricSensor_withCb", "BarometricSensor_asyncWithCb"}
    /\ dest = Sentinel

\* The dispatcher has run what it was handed.
Drained == handedOff = <<>>

\* BarometricSensor_withCb.readPressure with the callbacks invoked or
\* dispatched.  The dispatcher runs what it was handed before the next call
\* is made.
readPressure_invokedOrDispatched ==
    /\ ~aborted
    /\ facade = "BarometricSensor_withCb"
    /\ \E ptrNull \in BOOLEAN, valid \in BOOLEAN, p \in Readings,
          a \in Readings, how \in Delivery :
          LET r == sampleWithCb(ptrNull, valid, p, <<p, a>>, dest,
                                newSampleCbs, errorCbs)
              d == deliver(how, r.nsLog, r.errLog)
          IN  /\ Drained
              /\ dest' = r.dest
              /\ nsLog' = d.nsLog
              /\ errLog' = d.errLog
              /\ handedOff' = handedOff \o d.handedOff
              /\ last' = [Call("readPressure") EXCEPT
                              !.destNull = ptrNull, !.valid = valid,
                              !.value = p, !.args = <<p, a>>,
                              !.ret = r.ret, !.follows = how]
    /\ UNCHANGED <<slp, slpSupplied, inflight, hist>>
    /\ UNCHANGED <<facade, newSampleCbs, errorCbs, pending, aborted, nsSet,
                   errSet>>

\* The dispatcher runs the oldest invocation it was handed, on its own
\* thread of control.
runDispatched ==
    /\ ~aborted
    /\ handedOff # <<>>
    /\ handedOff' = Tail(handedOff)
    /\ nsLog' = <<>>
    /\ errLog' = <<>>
    /\ last' = [Call("runDispatched") EXCEPT
                    !.cb = Head(handedOff)[2], !.args = Head(handedOff)[3]]
    /\ UNCHANGED <<slp, slpSupplied, inflight, hist>>
    /\ UNCHANGED <<facade, newSampleCbs, errorCbs, dest, pending, aborted,
                   nsSet, errSet>>

ContextNext ==
    \/ readPressure_invokedOrDispatched
    \/ runDispatched
    \/ Drained /\ registerNewSampleCb
    \/ Drained /\ unregisterNewSampleCb
    \/ Drained /\ registerErrorCb
    \/ Drained /\ unregisterErrorCb
    \/ readSample
    \/ completeRequest

ContextSpec == ContextInit /\ [][ContextNext]_vars

(***************************************************************************)
(* The C types of the readings.  A 32-bit object is the pair <<hi, lo>> of *)
(* its 16-bit halves, each in 0..Word-1; a 16-bit object is its bits in    *)
(* 0..Word-1.  A number is the pair <<h, lo>> that stands for              *)
(* h * Word + lo, with lo in 0..Word-1 and h of either sign, so that every *)
(* number has one pair.                                                    *)
(***************************************************************************)
Word == 2^16

SignBit == 2^15

\* The number a uint32_t with these bits holds.
uint32Number(bits) == bits

\* The number an int32_t with these bits holds (two's complement).
int32Number(bits) ==
    IF bits[1] >= SignBit THEN <<bits[1] - Word, bits[2]>> ELSE bits

\* The int32_t an int16_t with the bits u is converted to: the sign bit is
\* extended into the upper half.
int16ToInt32(u) == <<IF u >= SignBit THEN Word - 1 ELSE 0, u>>

\* The number an int16_t with the bits u holds.
int16Number(u) == IF u >= SignBit THEN <<0 - 1, u>> ELSE <<0, u>>

\* Raw 16-bit halves around the sign bit and at both ends.
Halves ==
    {0, Word - 1}
    \cup {SignBit - 1 - i : i \in 0..MaxOffset}
    \cup {SignBit + i : i \in 0..MaxOffset}

\* Raw pressure readings (UQ22.10, 32 bits): the standard pressure and
\* readings around the sign bit and at both ends of the format.
PressureBits ==
    {<<DefaultSeaLevelPressure \div Word, DefaultSeaLevelPressure % Word>>}
    \cup {<<hi, lo>> : hi \in Halves, lo \in {0, Word - 1}}

\* Raw temperature readings (Q7.8, 16 bits).
TemperatureBits == Halves

FixedPointInit ==
    /\ facade \in {"BarometricSensor_withCb", "TemperatureSensor_withCb"}
    /\ newSampleCbs = <<>>
    /\ errorCbs = <<>>
    /\ dest = <<0, 0>>
    /\ pending = 0
    /\ nsLog = <<>>
    /\ errLog = <<>>
    /\ aborted = FALSE
    /\ nsSet = {}
    /\ errSet = {}
    /\ last = [NoCall EXCEPT !.destBefore = dest]
    /\ slp = DefaultSeaLevelPressure
    /\ slpSupplied = <<>>
    /\ inflight = NoDispatch
    /\ handedOff = <<>>
    /\ admitNs = <<>>
    /\ followed = NotFollowed
    /\ counts = NoCounts

\* BarometricSensor_withCb.readPressure: "bool (*readPressure)(int32_t*
\* const pressure)" stores the reading in an int32_t; the callbacks,
\* "void (*NewBarometricSampleCb)(uint32_t pressure, int32_t altitude)",
\* take it as a uint32_t.
readPressure_fixedPoint ==
    /\ facade = "BarometricSensor_withCb"
    /\ \E ptrNull \in BOOLEAN, valid \in BOOLEAN, bits \in PressureBits :
          read_withCb("readPressure", ptrNull, valid, int32Number(bits),
                      <<uint32Number(bits), int32Number(<<0, 0>>)>>)

\* TemperatureSensor_withCb.readTemperature: "bool (*readTemperature)
\* (int32_t* const temperature)" stores the reading in an int32_t; the
\* callbacks, "void (*NewTemperatureSampleCb)(int16_t temperature)", take
\* it as an int16_t.
readTemperature_fixedPoint ==
    /\ facade = "TemperatureSensor_withCb"
    /\ \E ptrNull \in BOOLEAN, valid \in BOOLEAN, u \in TemperatureBits :
          read_withCb("readTemperature", ptrNull, valid,
                      int32Number(int16ToInt32(u)), <<int16Number(u)>>)

FixedPointNext ==
    \/ readPressure_fixedPoint
    \/ readTemperature_fixedPoint
    \/ registerNewSampleCb
    \/ unregisterNewSampleCb

FixedPointSpec == FixedPointInit /\ [][FixedPointNext]_vars

TypeOK ==
    /\ facade \in Facades
    /\ newSampleCbs \in Seq(NewSampleCallbacks)
    /\ Len(newSampleCbs) <= NewSampleCapacity
    /\ errorCbs \in Seq(ErrorCallbacks)
    /\ Len(errorCbs) <= ErrorCapacity
    /\ dest \in DestValues
    /\ pending \in 0..QueueCapacity
    /\ aborted \in BOOLEAN

(***************************************************************************)
(* Properties.                                                             *)
(***************************************************************************)
\* The position of the quantity a read function returns in the argument
\* list of the new-sample callbacks.
ValueIndex == IF last.op = "readAltitude" THEN 2 ELSE 1

C2_InvalidRead ==
    (IsRead /\ ~last.valid) =>
        /\ last.ret = FALSE
        /\ dest = last.destBefore
        /\ \A cb \in ErrorCallbacks :
              Count(cb, errLog) =
                  IF cb \in Members(last.errBefore) THEN 1 ELSE 0
        /\ Len(errLog) = Cardinality(Members(last.errBefore))

\* An invalid read through a pointer to a variable that held the sentinel,
\* with an error callback registered.
C2_Witness ==
    /\ IsRead /\ ~last.valid /\ ~last.destNull
    /\ last.destBefore = Sentinel
    /\ dest = Sentinel
    /\ last.value # Sentinel
    /\ Len(last.errBefore) >= 1
    /\ Len(errLog) >= 1

\* C3: as long as the device has not crashed, the members of each callback
\* list are the set obtained by applying the register and unregister calls
\* made so far, in order, to the empty set.
C3_ListIsSet ==
    ~aborted =>
        /\ Members(newSampleCbs) = nsSet
        /\ Members(errorCbs) = errSet

\* An unregister call that took a callback off a full list.
C3_Witness ==
    /\ last.op = "unregisterNewSampleCb"
    /\ Len(last.nsBefore) = NewSampleCapacity
    /\ last.cb \in Members(last.nsBefore)
    /\ nsSet # {}
    /\ Cardinality(nsSet) = NewSampleCapacity - 1

\* C4: one dispatch of a list invokes each callback that is on the list
\* once and no callback that is not on it, in whatever order the callbacks
\* were registered.
C4_DispatchOnce ==
    IsSampleEvent =>
        /\ last.valid =>
              /\ \A cb \in NewSampleCallbacks :
                    Count(cb, Invoked(nsLog)) =
                        IF cb \in Members(last.nsBefore) THEN 1 ELSE 0
              /\ Len(nsLog) = Cardinality(Members(last.nsBefore))
        /\ ~last.valid =>
              /\ \A cb \in ErrorCallbacks :
                    Count(cb, errLog) =
                        IF cb \in Members(last.errBefore) THEN 1 ELSE 0
              /\ Len(errLog) = Cardinality(Members(last.errBefore))

\* A dispatch to two callbacks that were registered in descending order.
C4_Witness ==
    /\ IsSampleEvent /\ last.valid
    /\ Len(last.nsBefore) >= 2
    /\ last.nsBefore[1] > last.nsBefore[2]
    /\ Len(nsLog) = Len(last.nsBefore)

\* C5: no callback is twice on a list; registering a callback that is
\* already on the list leaves the list as it was, so a dispatch invokes it
\* once however often it was registered.
C5_NoDuplicates ==
    /\ \A cb \in NewSampleCallbacks :
          /\ Count(cb, newSampleCbs) <= 1
          /\ Count(cb, Invoked(nsLog)) <= 1
    /\ \A cb \in ErrorCallbacks :
          /\ Count(cb, errorCbs) <= 1
          /\ Count(cb, errLog) <= 1
    /\ (last.op = "registerNewSampleCb" /\ last.cb \in Members(last.nsBefore))
          => (newSampleCbs = last.nsBefore /\ last.returned)
    /\ (last.op = "registerErrorCb" /\ last.cb \in Members(last.errBefore))
          => (errorCbs = last.errBefore /\ last.returned)

\* A callback registered again while it is on a full list.
C5_Witness ==
    /\ last.op = "registerNewSampleCb"
    /\ last.cb \in Members(last.nsBefore)
    /\ Len(last.nsBefore) = NewSampleCapacity
    /\ newSampleCbs = last.nsBefore
    /\ ~aborted

\* What one step may do to callback cb on a list: a callback that is not on
\* the list stays off it and is not invoked, unless the step registers it.
StaysOff(cb, list, listAfter, invokedAfter, registerOp) ==
    (/\ cb \notin Members(list)
     /\ ~(last'.op = registerOp /\ last'.cb = cb))
        => (/\ cb \notin Members(listAfter)
            /\ Count(cb, invokedAfter) = 0)

UnregisteredStaysOff ==
    /\ \A cb \in NewSampleCallbacks :
          StaysOff(cb, newSampleCbs, newSampleCbs', Invoked(nsLog'),
                   "registerNewSampleCb")
    /\ \A cb \in ErrorCallbacks :
          StaysOff(cb, errorCbs, errorCbs', errLog', "registerErrorCb")

UnregisterRemoves ==
    /\ last.op = "unregisterNewSampleCb" =>
          (/\ last.cb \notin Members(newSampleCbs)
           /\ last.returned /\ ~aborted)
    /\ last.op = "unregisterErrorCb" =>
          (/\ last.cb \notin Members(errorCbs)
           /\ last.returned /\ ~aborted)

\* C6: when unregister returns, the callback is not on the list, whatever
\* was registered before; from then on it is not on the list and no
\* dispatch invokes it until it is registered again; unregister always
\* returns.
C6_UnregisterRemoves ==
    /\ []UnregisterRemoves
    /\ [][UnregisteredStaysOff]_vars

\* An unregister call that took a callback off a full new-sample list and
\* left another callback on it.
C6_Witness ==
    /\ last.op = "unregisterNewSampleCb"
    /\ Len(last.nsBefore) = NewSampleCapacity
    /\ last.cb \in Members(last.nsBefore)
    /\ last.cb \notin Members(newSampleCbs)
    /\ Len(newSampleCbs) = NewSampleCapacity - 1
    /\ last.returned

\* C7: unregistering a callback that is not on the list leaves both lists,
\* entry by entry, as they were, so later dispatches invoke the same
\* callbacks as without the call.
C7_UnregisterAbsent ==
    /\ (last.op = "unregisterNewSampleCb"
        /\ last.cb \notin Members(last.nsBefore))
          => (/\ newSampleCbs = last.nsBefore
              /\ errorCbs = last.errBefore
              /\ Members(newSampleCbs) = Members(last.nsBefore))
    /\ (last.op = "unregisterErrorCb"
        /\ last.cb \notin Members(last.errBefore))
          => (/\ errorCbs = last.errBefore
              /\ newSampleCbs = last.nsBefore
              /\ Members(errorCbs) = Members(last.errBefore))

\* An unregister call for a callback that is not on a non-empty list.
C7_Witness ==
    /\ last.op = "unregisterErrorCb"
    /\ last.cb \notin Members(last.errBefore)
    /\ Len(last.errBefore) >= 1
    /\ errorCbs = last.errBefore

\* C8: a read with a NULL pointer followed by the same read with a pointer,
\* the device giving both the same reading, return the same boolean and
\* make the same callback invocations with the same arguments; the second
\* also stores the reading in the caller's variable if it is valid.  The
\* NULL call is not an error: it returns the validity of the reading.
C8_NullPointerRead ==
    [][(/\ IsRead /\ last.destNull
        /\ last'.op = last.op
        /\ ~last'.destNull
        /\ last'.valid = last.valid
        /\ last'.args = last.args)
          => (/\ last.ret = last.valid
              /\ last'.ret = last.ret
              /\ nsLog' = nsLog
              /\ errLog' = errLog
              /\ last.valid => Len(nsLog) = Len(newSampleCbs)
              /\ last.valid => dest' = last'.value
              /\ ~aborted')]_vars

\* A valid read through a pointer right after the same read with NULL, the
\* same reading and a registered callback.
C8_Witness ==
    /\ IsRead /\ ~last.destNull /\ last.valid
    /\ last.follows = "null-read"
    /\ Len(nsLog) >= 1
    /\ last.destBefore # last.value
    /\ dest = last.value
    /\ last.ret

\* C9: a sample event dispatches one of the two lists: a valid sample
\* invokes no error callback and an invalid one no new-sample callback;
\* every callback on the new-sample list gets a valid sample once, all with
\* the same arguments.
C9_OneRegistryPerEvent ==
    IsSampleEvent =>
        /\ last.valid =>
              /\ errLog = <<>>
              /\ \A cb \in Members(last.nsBefore) :
                    Cardinality({i \in 1..Len(nsLog) :
                                    nsLog[i] = <<cb, last.args>>}) = 1
              /\ \A i \in 1..Len(nsLog) : nsLog[i][2] = last.args
        /\ ~last.valid =>
              /\ nsLog = <<>>
              /\ \A cb \in Members(last.errBefore) : Count(cb, errLog) = 1

\* One valid sample with two new-sample callbacks and an error callback
\* registered.
C9_Witness ==
    /\ IsSampleEvent /\ last.valid
    /\ Len(last.nsBefore) = 2
    /\ Len(last.errBefore) >= 1
    /\ Len(nsLog) = 2
    /\ nsLog[1][2] = nsLog[2][2]
    /\ errLog = <<>>

\* C10: readSample returns true exactly when fewer requests than the queue
\* holds are enqueued and not completed, and then enqueues one; with the
\* queue full it returns false, and after a completion it returns true
\* again.
C10_Admission ==
    last.op = "readSample" =>
        /\ last.ret = (last.pendingBefore < QueueCapacity)
        /\ pending = last.pendingBefore + (IF last.ret THEN 1 ELSE 0)
        /\ last.follows # "" => last.ret

\* A request admitted right after a completion that followed a rejection.
C10_Witness ==
    /\ last.op = "readSample"
    /\ last.follows = "rejected-completed"
    /\ last.pendingBefore = QueueCapacity - 1
    /\ last.ret
    /\ pending = QueueCapacity

\* C11: the completion of an enqueued request takes that one request off
\* the queue and notifies once: the new-sample callbacks with the sample
\* if it is valid, the error callbacks if it is not; it hands nothing to
\* the caller that made the request.
C11_CompletionNotifies ==
    last.op = "completeRequest" =>
        /\ last.pendingBefore > 0
        /\ pending = last.pendingBefore - 1
        /\ last.valid =>
              /\ Invoked(nsLog) = last.nsBefore
              /\ \A i \in 1..Len(nsLog) : nsLog[i][2] = last.args
              /\ errLog = <<>>
        /\ ~last.valid =>
              /\ nsLog = <<>>
              /\ errLog = last.errBefore
        /\ dest = last.destBefore
        /\ last.ret = FALSE

\* The completion of a request of a full queue with an invalid sample, an
\* error callback and a new-sample callback being registered.
C11_Witness ==
    /\ last.op = "completeRequest"
    /\ ~last.valid
    /\ last.pendingBefore = QueueCapacity
    /\ Len(last.errBefore) >= 1
    /\ Len(last.nsBefore) >= 1
    /\ Len(errLog) = Len(last.errBefore)
    /\ nsLog = <<>>

\* C12: a readSample call that is rejected returns false and changes
\* nothing: the requests in the queue, the callback lists and the caller's
\* variable are as before, and no callback is invoked.
C12_RejectionNoEffect ==
    (last.op = "readSample" /\ ~last.ret) =>
        /\ last.pendingBefore = QueueCapacity
        /\ pending = last.pendingBefore
        /\ nsLog = <<>>
        /\ errLog = <<>>
        /\ newSampleCbs = last.nsBefore
        /\ errorCbs = last.errBefore
        /\ dest = last.destBefore

\* A rejected call with callbacks registered on both lists.
C12_Witness ==
    /\ last.op = "readSample"
    /\ ~last.ret
    /\ pending = QueueCapacity
    /\ Len(newSampleCbs) >= 1
    /\ Len(errorCbs) >= 1

\* C13: readSample is always ready to return (it does not wait for a
\* sample), invokes no callback and gives the caller no sample; in the
\* asynchronous interface callbacks are invoked only by the completion of a
\* request.
C13_RequestOnly ==
    /\ (facade = "BarometricSensor_asyncWithCb" /\ ~aborted)
          => ENABLED readSample
    /\ last.op = "readSample" =>
          /\ nsLog = <<>>
          /\ errLog = <<>>
          /\ dest = last.destBefore
          /\ last.ret => pending = last.pendingBefore + 1
    /\ (facade = "BarometricSensor_asyncWithCb"
        /\ (nsLog # <<>> \/ errLog # <<>>))
          => last.op = "completeRequest"

\* An admitted request with a new-sample callback registered: nothing is
\* invoked by the call.
C13_Witness ==
    /\ last.op = "readSample"
    /\ last.ret
    /\ Len(newSampleCbs) >= 1
    /\ nsLog = <<>>
    /\ pending = last.pendingBefore + 1

\* The followed request is in the queue until it has completed; it moves
\* only by a completion, one place at a time, and the completion that
\* takes it off the queue dispatches once.
NeverDropped ==
    /\ followed.pos <= pending
    /\ followed.pos' <= pending'
    /\ followed.pos' < followed.pos =>
          /\ followed.pos' = followed.pos - 1
          /\ pending' = pending - 1
          /\ last'.op = "completeRequest"
          /\ followed'.done = (followed.pos = 1)
          /\ IF last'.valid
             THEN Invoked(nsLog') = newSampleCbs /\ errLog' = <<>>
             ELSE nsLog' = <<>> /\ errLog' = errorCbs

CrashOnFull(cb, before, after, capacity) ==
    /\ (~isRegistered(before, cb) /\ listFull(before, capacity)) =>
          /\ aborted
          /\ ~last.returned
          /\ after = before
    /\ last.returned => (isRegistered(after, cb) /\ ~aborted)
    /\ last.returned \/ aborted

\* C15: registering a callback that is not in the list when the list is
\* full crashes the device: the call does not return, the callback is not
\* added, and nothing runs afterwards; a registration that returns has the
\* callback in the list.
C15_FullListAborts ==
    /\ last.op = "registerNewSampleCb" =>
          CrashOnFull(last.cb, last.nsBefore, newSampleCbs,
                      NewSampleCapacity)
    /\ last.op = "registerErrorCb" =>
          CrashOnFull(last.cb, last.errBefore, errorCbs, ErrorCapacity)
    /\ aborted =>
          /\ last.op \in {"registerNewSampleCb", "registerErrorCb"}
          /\ ~last.returned
          /\ ~ENABLED Next

\* An error callback registered on a full list of error callbacks.
C15_Witness ==
    /\ last.op = "registerErrorCb"
    /\ Len(last.errBefore) = ErrorCapacity
    /\ ~isRegistered(last.errBefore, last.cb)
    /\ errorCbs = last.errBefore
    /\ aborted
    /\ ~last.returned

\* The sea level pressure an altitude is to be corrected for, by the
\* history of the setSeaLevelPressure calls.
Reference ==
    IF slpSupplied = <<>> THEN DefaultSeaLevelPressure ELSE slpSupplied[1]

AltitudeReads ==
    {"BarometricSensor_readAltitude", "BarometricAltimeter_getAltitude"}

SlpSetters ==
    {"BarometricSensor_setSeaLevelPressure",
     "BarometricAltimeter_setSeaLevelPressure"}

\* C16: an altitude is computed with 1013.25 hPa as long as no sea level
\* pressure has been supplied, and with the most recently supplied one
\* afterwards; setSeaLevelPressure leaves the caller's variable, which
\* holds the sample returned before, as it is.
C16_SeaLevelPressure ==
    /\ slp = Reference
    /\ (last.op \in AltitudeReads /\ last.valid) =>
          /\ last.value = Altitude(last.args[1], Reference)
          /\ dest = last.value
    /\ last.op \in SlpSetters =>
          /\ slpSupplied = <<last.value>>
          /\ dest = last.destBefore

\* An altitude read after a sea level pressure other than the default has
\* been supplied: the altitude differs from the one the default gives.
C16_Witness ==
    /\ last.op \in AltitudeReads
    /\ last.valid
    /\ slpSupplied # <<>>
    /\ Reference # DefaultSeaLevelPressure
    /\ dest = Altitude(last.args[1], Reference)
    /\ dest # Altitude(last.args[1], DefaultSeaLevelPressure)

BasicGetters ==
    {"BarometricSensor_readPressure", "BarometricSensor_readAltitude",
     "BarometricAltimeter_getAltitude",
     "BarometricPressureSensor_readPressure", "HumiditySensor_getHumidity",
     "TemperatureSensor_readTemperature"}

C17_ConcurrentDispatch ==
    /\ inflight.active =>
          inflight.invoked = SubSeq(inflight.start, 1, inflight.idx - 1)
    /\ ~inflight.active => inflight.invoked = inflight.start
    /\ \A cb \in NewSampleCallbacks :
          Count(cb, inflight.invoked) <= 1
    /\ last.op = "beginDispatch" =>
          /\ inflight.start = newSampleCbs
          /\ inflight.invoked = <<>>
    /\ (inflight.policy = "lock" /\ inflight.active) =>
          newSampleCbs = inflight.start

\* A dispatch under the snapshot policy has ended after the list was changed
\* under it: a callback it invoked is no longer registered and a callback
\* registered meanwhile was not invoked.
C17_Witness ==
    /\ last.op = "endDispatch"
    /\ inflight.policy = "snapshot"
    /\ Len(inflight.invoked) >= 1
    /\ \E cb \in Members(inflight.invoked) : ~isRegistered(newSampleCbs, cb)
    /\ \E cb \in Members(newSampleCbs) : ~isRegistered(inflight.invoked, cb)

\* The notification a sample event owes: the new-sample callbacks with the
\* sample if it is valid, the error callbacks if it is not.
Owed == notify(last.valid, last.args, last.nsBefore, last.errBefore)

\* C18, as claimed: every callback a read notifies has been invoked by the
\* time the read returns, and no callback runs on another thread of
\* control afterwards.
C18_InvokedBeforeReturn ==
    /\ last.op = "readPressure" =>
          /\ nsLog = Owed.nsLog
          /\ errLog = Owed.errLog
    /\ last.op # "runDispatched"

\* C18, as the headers have it: every callback a read notifies is, by the
\* time the read returns, invoked by the read or handed to the dispatcher
\* ("invoked or dispatched"), once, with the reading the read took; a read
\* that dispatches invokes nothing itself.  In the asynchronous interface
\* readSample invokes and dispatches nothing and the completion of a
\* request invokes the callbacks itself.
C18_InvokedOrDispatched ==
    /\ (last.op = "readPressure" /\ last.follows = "invoke") =>
          /\ nsLog = Owed.nsLog
          /\ errLog = Owed.errLog
    /\ (last.op = "readPressure" /\ last.follows = "dispatch") =>
          /\ nsLog = <<>>
          /\ errLog = <<>>
          /\ handedOff = asDispatched(Owed.nsLog, Owed.errLog)
    /\ last.op = "readPressure" => last.follows \in Delivery
    /\ facade = "BarometricSensor_asyncWithCb" =>
          /\ handedOff = <<>>
          /\ last.op = "readSample" => (nsLog = <<>> /\ errLog = <<>>)
          /\ last.op = "completeRequest" =>
                (nsLog = Owed.nsLog /\ errLog = Owed.errLog)

\* A read of a valid sample has returned with every registered new-sample
\* callback handed to the dispatcher and none invoked.
C18_Witness ==
    /\ last.op = "readPressure"
    /\ last.follows = "dispatch"
    /\ last.valid
    /\ Len(last.nsBefore) = NewSampleCapacity
    /\ Len(handedOff) = Len(last.nsBefore)
    /\ nsLog = <<>>

\* C20: the completion of a request with a valid sample invokes the
\* callbacks that are in the list of new-sample callbacks at the
\* completion, each once, whatever the list was when the request was
\* enqueued: a callback registered in between is invoked, a callback
\* unregistered in between is not.
C20_ListAtCompletion ==
    (last.op = "completeRequest" /\ last.valid) =>
        \A cb \in NewSampleCallbacks :
            Count(cb, Invoked(nsLog)) =
                IF isRegistered(newSampleCbs, cb) THEN 1 ELSE 0

\* The only request in the queue has completed; between its admission and
\* its completion one callback was registered, which was invoked, and one
\* was unregistered, which was not.
C20_Witness ==
    /\ last.op = "completeRequest"
    /\ last.valid
    /\ last.pendingBefore = 1
    /\ \E cb \in Members(newSampleCbs) :
          /\ ~isRegistered(admitNs, cb)
          /\ isRegistered(Invoked(nsLog), cb)
    /\ \E cb \in Members(admitNs) :
          /\ ~isRegistered(newSampleCbs, cb)
          /\ ~isRegistered(Invoked(nsLog), cb)

\* C21: in the asynchronous interface the requests in the queue are those
\* enqueued and not yet completed, between none and QueueCapacity of them;
\* the notifications made so far (new-sample and error together) are as
\* many as the requests completed, and no more than the readSample calls
\* that returned true.
C21_RequestAccounting ==
    /\ pending \in 0..QueueCapacity
    /\ pending = counts.admitted - counts.completed
    /\ counts.newSample + counts.error = counts.completed
    /\ counts.completed <= counts.admitted
    /\ last.op = "completeRequest" =>
          /\ (nsLog # <<>>) => (last.valid /\ errLog = <<>>)
          /\ (errLog # <<>>) => (~last.valid /\ nsLog = <<>>)

\* More requests than the queue holds have been enqueued and all are
\* completed, with notifications of both kinds.
C21_Witness ==
    /\ counts.admitted = MaxRequests
    /\ counts.admitted > QueueCapacity
    /\ counts.completed = MaxRequests
    /\ counts.newSample >= 1
    /\ counts.error >= 1
    /\ pending = 0
    /\ last.op = "completeRequest"

NewSampleRegistration == {"registerNewSampleCb", "unregisterNewSampleCb"}

ErrorRegistration == {"registerErrorCb", "unregisterErrorCb"}

\* C22: the two lists of one device are independent: registering or
\* unregistering a new-sample callback leaves the members of the error list
\* as they were, registering or unregistering an error callback leaves the
\* members of the new-sample list as they were, and a read, a request, a
\* completion with its notifications and a store by the caller change the
\* members of neither.
C22_IndependentLists ==
    /\ last.op \in NewSampleRegistration =>
          Members(errorCbs) = Members(last.errBefore)
    /\ last.op \in ErrorRegistration =>
          Members(newSampleCbs) = Members(last.nsBefore)
    /\ last.op \notin (NewSampleRegistration \cup ErrorRegistration) =>
          /\ Members(newSampleCbs) = Members(last.nsBefore)
          /\ Members(errorCbs) = Members(last.errBefore)

\* A new-sample callback has been added while an error callback is
\* registered.
C22_Witness ==
    /\ last.op = "registerNewSampleCb"
    /\ last.returned
    /\ Members(newSampleCbs) # Members(last.nsBefore)
    /\ Members(errorCbs) # {}
    /\ Members(errorCbs) # Members(newSampleCbs)
    /\ errorCbs = last.errBefore

\* C23, as claimed: after a valid read through a pointer, of the pressure
\* or of the temperature, the number in the caller's variable is the number
\* every new-sample callback was invoked with.
C23_SameNumber ==
    (last.op \in {"readPressure", "readTemperature"}
     /\ last.valid /\ ~last.destNull) =>
        /\ dest = last.args[1]
        /\ \A i \in 1..Len(nsLog) : nsLog[i][2][1] = dest

\* A valid pressure reading with the top bit set: the callback was invoked
\* with the reading and the caller's variable holds a negative number.
C23_Witness ==
    /\ last.op = "readPressure"
    /\ last.valid
    /\ ~last.destNull
    /\ Len(nsLog) >= 1
    /\ nsLog[1][2][1][1] >= SignBit
    /\ dest[1] < 0
    /\ dest # nsLog[1][2][1]

=============================================================================
